---- MODULE Spec2Model ----
(***************************************************************************)
(* immutable-record: a record type built from a shape (RecordSchema), and  *)
(* immutable instances with set / remove.                                  *)
(*                                                                         *)
(* Modelled code: src/src/index.js lines 514-703 (the current              *)
(* ImmutableRecord) and src/unnamed/part_003 (RecordSchema).  The lodash   *)
(* functions the code calls (pick, defaults, clone, set, unset, keys) are  *)
(* modelled by what lodash 4.17 does, including property paths ("a.b") and *)
(* the JavaScript `in` operator, which also sees inherited properties.     *)
(*                                                                         *)
(* JavaScript values are strings of the model:                             *)
(*   "undefined", "n1" (the number 1), "n7" (the number 7), "s" (a         *)
(*   string), "fn" (Object.prototype.toString, a function), "o1" and "o2"  *)
(*   (two objects, told apart by reference), "{}" and "{b:v}" (plain       *)
(*   objects with at most the own property b).                             *)
(* A JavaScript plain object is a function from its own keys to values.    *)
(***************************************************************************)
EXTENDS Integers, Sequences, FiniteSets, TLC

VARIABLES schema, instances, last

vars == <<schema, instances, last>>

\* ------------------------------------------------------------------ bounds

\* How many instances the client keeps a reference to; older ones go out of
\* scope.
MaxInstances == 2

\* How many keys a constructor input has at most.
MaxInputKeys == 2

\* ------------------------------------------------------------------ values

Atoms == {"undefined", "n1", "s"}

\* Object.prototype.toString, the value every plain object inherits at
\* "toString".
ProtoFn == "fn"

EmptyObj == "{}"

Nest(v) == CASE v = "undefined" -> "{b:undefined}"
             [] v = "n1" -> "{b:n1}"
             [] v = "n7" -> "{b:n7}"
             [] v = "s" -> "{b:s}"
             [] v = "fn" -> "{b:fn}"
             [] v = "o1" -> "{b:o1}"
             [] v = "o2" -> "{b:o2}"
             [] OTHER -> "{b:{}}"

NestedObjs == {EmptyObj} \cup {Nest(v) : v \in Atoms \cup {ProtoFn}}

\* Two objects the caller holds references to.
Refs == {"o1", "o2"}

\* The values an object can hold at b.
Nestable == Atoms \cup {"n7", ProtoFn} \cup Refs

\* _.isObject(value) for the values of the model.
IsObjectValue(v) ==
    v \in {EmptyObj, ProtoFn, "{b:{}}"} \cup Refs \cup {Nest(a) : a \in Nestable}

\* `"b" in o` for a nested object.
NestedHasB(v) == v \in {Nest(a) : a \in Nestable}

\* o.b for a nested object.
NestedGetB(v) == IF NestedHasB(v)
                 THEN CHOOSE a \in Nestable : Nest(a) = v
                 ELSE "undefined"

\* JavaScript's typeof.
TypeOf(v) == CASE v = "undefined" -> "undefined"
               [] v \in {"n1", "n7"} -> "number"
               [] v = "s" -> "string"
               [] v = "fn" -> "function"
               [] OTHER -> "object"

\* ----------------------------------------------------------- plain objects

\* Property names inherited from Object.prototype (one stands for all).
ProtoKeys == {"toString"}

NoObj == [k \in {} |-> "undefined"]

\* JavaScript `key in object` for a plain object: own or inherited.
HasIn(o, k) == k \in DOMAIN o \/ k \in ProtoKeys

\* JavaScript object[key].
Get(o, k) == IF k \in DOMAIN o THEN o[k]
             ELSE IF k \in ProtoKeys THEN ProtoFn
             ELSE "undefined"

\* object[key] = value on a copy.
Put(o, k, v) == [j \in DOMAIN o \cup {k} |-> IF j = k THEN v ELSE o[j]]

\* delete object[key] on a copy.
Del(o, k) == [j \in DOMAIN o \ {k} |-> o[j]]

\* lodash castPath(value, object): a key that is not a plain property name
\* and is not `in` the object is parsed as a property path.
CastPath(k, o) == IF k = "a.b" /\ ~HasIn(o, k) THEN <<"a", "b">> ELSE <<k>>

\* lodash hasIn(object, path).
HasInPath(o, k) ==
    LET p == CastPath(k, o)
    IN  IF Len(p) = 1 THEN HasIn(o, k)
        ELSE HasIn(o, p[1]) /\ NestedHasB(Get(o, p[1]))

\* lodash baseGet(object, path).
GetPath(o, k) ==
    LET p == CastPath(k, o)
    IN  IF Len(p) = 1 THEN Get(o, k) ELSE NestedGetB(Get(o, p[1]))

\* lodash baseSet(object, path, value), the path already cast.
BaseSet(o, p, v) ==
    IF Len(p) = 1 THEN Put(o, p[1], v) ELSE Put(o, p[1], Nest(v))

RECURSIVE PickFrom(_, _, _, _)
PickFrom(o, keys, i, result) ==
    IF i > Len(keys) THEN result
    ELSE PickFrom(o, keys, i + 1,
                  IF HasInPath(o, keys[i])
                  THEN BaseSet(result, CastPath(keys[i], o), GetPath(o, keys[i]))
                  ELSE result)

\* _.pick(object, paths): a new object.
Pick(o, keys) == PickFrom(o, keys, 1, NoObj)

\* _.defaults(object, source) assigns source[key] where object[key] is
\* undefined, or is the inherited Object.prototype value and not own.
DefaultsAssigns(o, d, k) ==
    \/ Get(o, k) = "undefined"
    \/ (k \in ProtoKeys /\ Get(o, k) = ProtoFn /\ k \notin DOMAIN o)

Defaults(o, d) ==
    [k \in DOMAIN o \cup {j \in DOMAIN d : DefaultsAssigns(o, d, j)} |->
        IF k \in DOMAIN d /\ DefaultsAssigns(o, d, k) THEN d[k] ELSE o[k]]

\* _.set(object, path, value) on the object given.
LodashSet(o, k, v) == BaseSet(o, CastPath(k, o), v)

\* _.unset(object, path) on the object given.
LodashUnset(o, k) ==
    LET p == CastPath(k, o)
    IN  IF Len(p) = 1 THEN Del(o, k)
        ELSE IF p[1] \in DOMAIN o /\ NestedHasB(o[p[1]])
             THEN Put(o, p[1], EmptyObj)
             ELSE o

\* ------------------------------------------------------------------ shapes

\* A field rule as the caller writes it: kind is what the rule is (a plain
\* object, null, undefined, or a number), def its own keys when an object.
Rule(def) == [kind |-> "object", def |-> def]

NoDef == [k \in {} |-> ""]

NullRule == [kind |-> "null", def |-> NoDef]

\* this.__schemaDefaults of a RecordSchema before the first applyDefaults.
NotCached == [set |-> FALSE, defaults |-> NoObj]

\* A shape as the caller writes it: kind "object" is a plain object with the
\* keys in declaration order, anything else is not a plain object. The
\* RecordSchema keeps the caller's object itself, and cache is the
\* __schemaDefaults it adds.
Shape(keys, rules) ==
    [kind |-> "object", keys |-> keys, rules |-> rules, cache |-> NotCached]

NoRules == [k \in {} |-> NullRule]

NoShape == [kind |-> "none", keys |-> <<>>, rules |-> NoRules]

\* { x: { default: 1 }, y: { type: 'number', required: true } }
ShapeDefault ==
    Shape(<<"x", "y">>,
          "x" :> Rule("default" :> "n1")
          @@ "y" :> Rule("type" :> "number" @@ "required" :> "true"))

\* { toString: {}, x: { type: 'string' } }
ShapeProto ==
    Shape(<<"toString", "x">>,
          "toString" :> Rule(NoDef) @@ "x" :> Rule("type" :> "string"))

\* { 'a.b': { type: 'number' } }
ShapePath == Shape(<<"a.b">>, "a.b" :> Rule("type" :> "number"))

\* { x: { type: 'number', default: 's' } }
ShapeBadDefault ==
    Shape(<<"x">>, "x" :> Rule("type" :> "number" @@ "default" :> "s"))

Shapes == {ShapeDefault, ShapeProto, ShapePath, ShapeBadDefault}

\* The shapes that are no plain object with a key: null, a value that is
\* no plain object (an array, a number), and {}.
NullShape == [kind |-> "null", keys |-> <<>>, rules |-> NoRules]

OtherShape == [kind |-> "other", keys |-> <<>>, rules |-> NoRules]

EmptyShape == Shape(<<>>, NoRules)

\* A rule option the caller leaves out.
LeftOut == "absent"

\* The rule { type: t, default: d, required: r, enumerable: e, foo: o }, the
\* keys written in this order, without the options that are LeftOut.
MakeDef(t, d, r, e, o) ==
    LET given == [type |-> t, default |-> d, required |-> r, enumerable |-> e, foo |-> o]
    IN  [k \in {j \in DOMAIN given : given[j] # LeftOut} |-> given[k]]

\* What the caller writes at each option: 'String' is a type string in
\* another case, 'nottypestring' is no type string, gt5 is (v => v > 5), fn2
\* a function of two parameters, 'yes' is no boolean.
TypeOptions == {LeftOut, "number", "undefined", "String", "nottypestring", "gt5", "fn2"}

DefaultOptions == {LeftOut, "undefined", "n1", "n7", "s"}

RequiredOptions == {LeftOut, "true", "yes"}

EnumerableOptions == {LeftOut, "true", "yes"}

OtherKeyOptions == {LeftOut, "s"}

RuleDefs ==
    {MakeDef(t, d, r, e, o) :
        t \in TypeOptions, d \in DefaultOptions, r \in RequiredOptions,
        e \in EnumerableOptions, o \in OtherKeyOptions}

\* { toString: { required: true } } and { toString: { required: true, default: 1 } }
ShapeProtoRequired ==
    Shape(<<"toString">>, "toString" :> Rule("required" :> "true"))

ShapeProtoDefault ==
    Shape(<<"toString">>,
          "toString" :> Rule("required" :> "true" @@ "default" :> "n1"))

\* { x: null }
ShapeNullRule == Shape(<<"x">>, "x" :> NullRule)

\* The shapes of one field x with every rule of RuleDefs, and the others.
SchemaShapes ==
    {Shape(<<"x">>, "x" :> Rule(def)) : def \in RuleDefs}
        \cup {NullShape, OtherShape, EmptyShape, ShapeNullRule,
              ShapeProtoRequired, ShapeProtoDefault}

\* ------------------------------------------------------------------ errors

Err(kind, field, value) == [err |-> kind, field |-> field, value |-> value]

NoErr == Err("none", "", "")

\* ------------------------------------------------------------ RecordSchema

TYPE_STRINGS ==
    {"object", "string", "number", "symbol", "boolean", "function", "undefined"}

\* String.prototype.toLowerCase for the type strings of the model.
ToLowerCase(t) == IF t = "String" THEN "string" ELSE t

\* The values of the model that are JavaScript strings when used as a type.
TypeIsString(t) == t \in TYPE_STRINGS \cup {"String", "nottypestring"}

\* The values of the model that are functions when used as a type, with
\* their arity: gt5 is (v => v > 5), fn2 is a function of two parameters.
TypeIsFunction(t) == t \in {"gt5", "fn2"}

FunctionLength(t) == IF t = "gt5" THEN 1 ELSE 2

isTypeString(t) == TypeIsString(t) /\ ToLowerCase(t) \in TYPE_STRINGS

isValidatorFunction(t) == TypeIsFunction(t) /\ FunctionLength(t) = 1

\* The validator function gt5 applied to a value: value > 5.
Gt5(v) == v = "n7"

isValidForType(t, v) ==
    IF t = "undefinedValue" THEN TRUE
    ELSE IF TypeIsString(t) THEN TypeOf(v) = t
    ELSE Gt5(v)

doesSchemaValueContainInvalidKeys(def) ==
    DOMAIN def \ {"type", "default", "required"} # {}

\* An isRecordSchemaValue that does not check the default against the type.
isRecordSchemaValueDefaultUnchecked(rule) ==
    IF rule.kind \in {"null", "undefined"} \/ (rule.kind = "object" /\ DOMAIN rule.def = {})
    THEN NoErr
    ELSE IF rule.kind # "object" THEN Err("TypeError", "", "")
    ELSE IF doesSchemaValueContainInvalidKeys(rule.def)
    THEN Err("InvalidSchema", "", "invalid key")
    ELSE IF "type" \in DOMAIN rule.def
            /\ ~(isTypeString(rule.def["type"]) \/ isValidatorFunction(rule.def["type"]))
    THEN Err("InvalidSchema", "", "type")
    ELSE IF "required" \in DOMAIN rule.def /\ rule.def["required"] \notin {"true", "false"}
    THEN Err("InvalidSchema", "", "required")
    ELSE NoErr

\* isRecordSchemaValue: the error it throws, or NoErr when it returns true.
isRecordSchemaValue(rule) ==
    IF rule.kind \in {"null", "undefined"} \/ (rule.kind = "object" /\ DOMAIN rule.def = {})
    THEN NoErr
    ELSE IF rule.kind # "object" THEN Err("TypeError", "", "")
    ELSE IF doesSchemaValueContainInvalidKeys(rule.def)
    THEN Err("InvalidSchema", "", "invalid key")
    ELSE IF "type" \in DOMAIN rule.def
            /\ ~(isTypeString(rule.def["type"]) \/ isValidatorFunction(rule.def["type"]))
    THEN Err("InvalidSchema", "", "type")
    ELSE IF "required" \in DOMAIN rule.def /\ rule.def["required"] \notin {"true", "false"}
    THEN Err("InvalidSchema", "", "required")
    ELSE IF "type" \notin DOMAIN rule.def \/ "default" \notin DOMAIN rule.def
    THEN NoErr
    ELSE IF ~isValidForType(rule.def["type"], rule.def["default"])
    THEN Err("InvalidSchema", "", "default")
    ELSE NoErr

RECURSIVE everyRule(_, _)
everyRule(shape, i) ==
    IF i > Len(shape.keys) THEN NoErr
    ELSE LET e == isRecordSchemaValue(shape.rules[shape.keys[i]])
         IN  IF e # NoErr THEN e ELSE everyRule(shape, i + 1)

\* A validateRecordSchema that takes a plain object without keys.
validateRecordSchemaEmptyAllowed(shape) ==
    IF shape.kind # "object" THEN Err("InvalidSchema", "", "plain object")
    ELSE everyRule(shape, 1)

validateRecordSchema(shape) ==
    IF shape.kind # "object" THEN Err("InvalidSchema", "", "plain object")
    ELSE IF Len(shape.keys) = 0 THEN Err("InvalidSchema", "", "0 keys")
    ELSE everyRule(shape, 1)

\* RecordSchema.hasProperty: `propertyName in schema`.
hasProperty(sch, name) == HasIn(sch.rules, name)

removeInvalidInputKeys(sch, obj) == Pick(obj, sch.keys)

isFieldRequired(rule) ==
    /\ "required" \in DOMAIN rule.def
    /\ rule.def["required"] = "true"
    /\ "default" \notin DOMAIN rule.def

\* validateInputValue: the error it throws, or NoErr when it returns true.
validateInputValue(key, sch, obj) ==
    LET rule == sch.rules[key]
    IN  IF rule.kind # "object" THEN Err("TypeError", key, "")
        ELSE IF ~HasIn(obj, key)
        THEN IF isFieldRequired(rule) THEN Err("MissingField", key, "") ELSE NoErr
        ELSE IF "type" \notin DOMAIN rule.def THEN NoErr
        ELSE IF ~isValidForType(rule.def["type"], Get(obj, key))
        THEN Err("InvalidFieldValue", key, Get(obj, key))
        ELSE NoErr

RECURSIVE everyKey(_, _, _)
everyKey(sch, obj, i) ==
    IF i > Len(sch.keys) THEN NoErr
    ELSE LET e == validateInputValue(sch.keys[i], sch, obj)
         IN  IF e # NoErr THEN e ELSE everyKey(sch, obj, i + 1)

\* A constructor argument: kind "nil" (null or undefined), "object" (a plain
\* object with the own properties obj) or "other" (anything else).
Input(obj) == [kind |-> "object", obj |-> obj]

NilInput == [kind |-> "nil", obj |-> NoObj]

OtherInput == [kind |-> "other", obj |-> NoObj]

\* A validateInput that takes every input as valid.
validateInputSkipped(sch, input) == NoErr

\* RecordSchema.validateInput: the error it throws, or NoErr.
validateInput(sch, input) ==
    IF input.kind = "other" THEN Err("InvalidInput", "", "")
    ELSE everyKey(sch, input.obj, 1)

\* The cached __schemaDefaults: the default of every rule that has one.
schemaDefaults(sch) ==
    [k \in {j \in DOMAIN sch.rules :
               sch.rules[j].kind = "object" /\ "default" \in DOMAIN sch.rules[j].def} |->
        sch.rules[k].def["default"]]

\* this.__schemaDefaults as applyDefaults uses it: computed at the first
\* call, the cached one afterwards.
schemaDefaultsCached(sch) ==
    IF sch.cache.set THEN sch.cache.defaults ELSE schemaDefaults(sch)

\* The RecordSchema after a call of applyDefaults.
afterApplyDefaults(sch) ==
    [sch EXCEPT !.cache = [set |-> TRUE, defaults |-> schemaDefaultsCached(sch)]]

applyDefaults(sch, obj) == Defaults(obj, schemaDefaultsCached(sch))

\* _.defaults(object, source) assigns to its first argument and returns it:
\* the argument of applyDefaults after the call.
argumentAfterDefaults(sch, obj) == Defaults(obj, schemaDefaultsCached(sch))

\* _.pick(object, paths) builds a new object: the argument of
\* removeInvalidInputKeys and of getAccessorsForInput after the call.
argumentAfterPick(sch, obj) == obj

\* RecordAccessor(value): get returns the value, set throws, enumerable by
\* the default of isEnumerable, not configurable.
RecordAccessor(value) ==
    [get |-> value, set |-> "throws", enumerable |-> TRUE, configurable |-> FALSE]

\* getAccessorsForInput: the value each accessor's getter returns.
getAccessorsForInput(sch, obj) == Pick(obj, sch.keys)

\* -------------------------------------------------------------- FieldValue

ALLOWED_KEYS == {"type", "required", "enumerable", "default"}

\* Definition.checkValidDefinition: the error it throws, or NoErr.  The
\* validators run in the order type, required, enumerable, default.
checkValidDefinition(rule) ==
    IF rule.kind = "null" THEN NoErr
    ELSE IF rule.kind # "object" THEN Err("InvalidDescriptor", "", "plain object")
    ELSE IF DOMAIN rule.def \ ALLOWED_KEYS # {}
    THEN Err("InvalidDescriptor", "", "disallowed keys")
    ELSE IF "type" \in DOMAIN rule.def
            /\ ~(isTypeString(rule.def["type"]) \/ isValidatorFunction(rule.def["type"]))
    THEN Err("InvalidDescriptor", "", "type")
    ELSE IF "required" \in DOMAIN rule.def /\ rule.def["required"] \notin {"true", "false"}
    THEN Err("InvalidDescriptor", "", "required")
    ELSE IF "enumerable" \in DOMAIN rule.def /\ rule.def["enumerable"] \notin {"true", "false"}
    THEN Err("InvalidDescriptor", "", "enumerable")
    ELSE NoErr

\* FieldValue.Defaults: no key default.
FieldValueDefaults ==
    [type |-> "undefinedValue", required |-> "false", enumerable |-> "true"]

\* this.__definition: _.defaults(definition || {}, FieldValue.Defaults).
fieldDefinition(rule) ==
    LET def == IF rule.kind = "object" THEN rule.def ELSE NoDef
    IN  [k \in DOMAIN def \cup DOMAIN FieldValueDefaults |->
            IF k \in DOMAIN def THEN def[k] ELSE FieldValueDefaults[k]]

\* matchesType() of isValid: the switch on typeof type.
matchesType(t, v) ==
    IF t = "undefinedValue" THEN TRUE
    ELSE IF TypeIsString(t) THEN TypeOf(v) = t
    ELSE Gt5(v)

\* An isValid that only looks at the type.
isValidTypeOnly(definition, v) == matchesType(definition["type"], v)

\* FieldValue.isValid(value), for the stored definition.
isValid(definition, v) ==
    LET required == definition["required"] = "true"
        notRequiredAndNotDefined == ~required /\ v = "undefined"
    IN  IF v = "undefined" THEN ~required
        ELSE IF required /\ v = "undefined" THEN FALSE
        ELSE notRequiredAndNotDefined \/ matchesType(definition["type"], v)

\* ---------------------------------------------------------------- instances

\* An instance: priv is its entry in the `privates` WeakMap (the backing
\* state), acc the value each accessor property returns, own the data
\* properties written on the instance directly, ctor the constructor property
\* of its prototype: "Record", or "Sub" for `class Sub extends Record {}`.
Instance(priv, acc) ==
    [priv |-> priv, acc |-> acc, own |-> NoObj, ctor |-> "Record"]

NoInstance == Instance(NoObj, NoObj)

\* The outcome of a call of the Record constructor.
Outcome(e, inst) == [error |-> e, instance |-> inst]

\* function Record (values): validate, clean, store, define the accessors.
Record(sch, input) ==
    LET e == validateInput(sch, input)
        cleanInput == applyDefaults(sch, removeInvalidInputKeys(sch, input.obj))
    IN  IF e # NoErr THEN Outcome(e, NoInstance)
        ELSE Outcome(NoErr, Instance(cleanInput, getAccessorsForInput(sch, cleanInput)))

\* A chain that builds the new instance without validating the values.
NewUnvalidated(Konstructor, sch, input) ==
    LET cleanInput == applyDefaults(sch, removeInvalidInputKeys(sch, input.obj))
    IN  Outcome(NoErr, [Instance(cleanInput, getAccessorsForInput(sch, cleanInput))
                            EXCEPT !.ctor = Konstructor])

\* new Konstructor(values): the Record function runs on an object whose
\* prototype is Konstructor.prototype.
New(Konstructor, sch, input) ==
    LET out == Record(sch, input)
    IN  Outcome(out.error, [out.instance EXCEPT !.ctor = Konstructor])

\* A chain that always builds a vanilla Record.
getRecordConstructorVanilla(recordInstance) == "Record"

\* getRecordConstructor(recordInstance): the constructor of the instance's
\* prototype.
getRecordConstructor(recordInstance) == recordInstance.ctor

\* The RecordSchema after a call of Record that threw e or returned:
\* applyDefaults runs when validateInput has not thrown.
afterRecord(sch, e) ==
    IF e = NoErr THEN afterApplyDefaults(sch) ELSE sch

\* update(object, field, value): _.set on a shallow clone.
update(obj, field, value) == LodashSet(obj, field, value)

\* unsetField(object, field): _.unset on a shallow clone.
unsetField(obj, field) == LodashUnset(obj, field)

\* The shallow clone shares the receiver's nested objects: a path that goes
\* through one writes into the receiver's own backing state.
privAfterUpdate(priv, field, value) ==
    IF Len(CastPath(field, priv)) = 2 /\ "a" \in DOMAIN priv /\ IsObjectValue(priv["a"])
    THEN Put(priv, "a", Nest(value))
    ELSE priv

privAfterUnset(priv, field) ==
    IF Len(CastPath(field, priv)) = 2 THEN LodashUnset(priv, field) ELSE priv

\* A set that defines the new accessor on the receiver itself.
receiverAfterSetInPlace(r, property, newValue) ==
    [r EXCEPT !.acc = Put(r.acc, property, newValue)]

\* The receiver after r.set(property, newValue) and after r.remove(property):
\* the result is built on a new object, the receiver keeps its accessors.
receiverAfterSet(r, property, newValue) ==
    [r EXCEPT !.priv = privAfterUpdate(r.priv, property, newValue)]

receiverAfterRemove(r, property) ==
    [r EXCEPT !.priv = privAfterUnset(r.priv, property)]

\* instance[property] = value, in strict mode: the accessor's setter throws;
\* a name without an accessor becomes an own data property of the instance.
assign(r, property, value) ==
    IF property \in DOMAIN r.acc
    THEN Outcome(Err("ImmutableWriteError", property, ""), r)
    ELSE Outcome(NoErr, [r EXCEPT !.own = Put(r.own, property, value)])

\* What the instance shows: its property names and the value read at each.
Visible(inst) ==
    [k \in DOMAIN inst.acc \cup DOMAIN inst.own |->
        IF k \in DOMAIN inst.acc THEN inst.acc[k] ELSE inst.own[k]]

\* The instances the client holds, with a new one; the oldest goes out of
\* scope when there are MaxInstances.
Keep(insts, inst) ==
    IF Len(insts) < MaxInstances THEN Append(insts, inst)
    ELSE Append(Tail(insts), inst)

\* The last call: what was called with which field and value, and the error
\* it threw (NoErr if it returned).
Call(op, field, value, e) ==
    [op |-> op, field |-> field, value |-> value, error |-> e]

NoCall == Call("none", "", "", NoErr)

\* ------------------------------------------------------------------ inputs

FieldNames == {"x", "y", "z", "toString", "a.b"}

\* The names a call is tried with: the declared ones, one that is declared
\* nowhere (z) and one that every object inherits (toString).
NamesFor(sch) == DOMAIN sch.rules \cup {"z", "toString"}

\* The keys of a constructor input: the declared ones, an undeclared one
\* and, for a declared path a.b, the key a the path starts with.
InputKeysFor(sch) ==
    DOMAIN sch.rules \cup {"z"} \cup (IF "a.b" \in DOMAIN sch.rules THEN {"a"} ELSE {})

InputValues(k) == IF k = "a" THEN {Nest("s")} ELSE Atoms

InputObjects(sch) ==
    UNION {{o \in [ks -> Atoms \cup NestedObjs] : \A k \in ks : o[k] \in InputValues(k)} :
           ks \in {s \in SUBSET InputKeysFor(sch) : Cardinality(s) <= MaxInputKeys}}

\* The values a client assigns with.
AssignValues == {"n1"}

InputsFor(sch) == {NilInput, OtherInput} \cup {Input(o) : o \in InputObjects(sch)}

\* { p: {}, q: { type: 'object' } }
ShapeRef ==
    Shape(<<"p", "q">>, "p" :> Rule(NoDef) @@ "q" :> Rule("type" :> "object"))

\* The values of the fields when the caller passes references: the two
\* objects and a string.
RefValues == Refs \cup {"s"}

\* The constructor inputs made of declared keys and these values.
RefInputs(sch) ==
    {Input(o) : o \in UNION {[ks -> RefValues] : ks \in SUBSET DOMAIN sch.rules}}

\* { x: { type: 'number', default: 1 } }
ShapeTypedDefault ==
    Shape(<<"x">>, "x" :> Rule("type" :> "number" @@ "default" :> "n1"))

\* What the caller writes into a rule object after the record type exists.
RuleWrites == {<<"type", "string">>, <<"default", "s">>}

\* A call of a method of the RecordSchema: the argument before and after
\* the call, the value returned, and whether that is the argument itself.
MethodCall(op, input, after, result, same) ==
    [op |-> op, field |-> "", value |-> "", error |-> NoErr,
     input |-> input, after |-> after, result |-> result, same |-> same]

\* A call that returned a value.
Returned(op, value, result) ==
    [op |-> op, field |-> "", value |-> value, error |-> NoErr, result |-> result]

\* The values isValid is called with.
FieldValues == Atoms \cup {"n7", ProtoFn, EmptyObj}

\* ----------------------------------------------------------------- actions

Init ==
    /\ schema = NoShape
    /\ instances = <<>>
    /\ last = NoCall

\* ImmutableRecord(shape): new RecordSchema(shape) throws or the record type
\* exists.
ImmutableRecord(shape) ==
    /\ schema = NoShape
    /\ last.op = "none"
    /\ LET e == validateRecordSchema(shape)
       IN  /\ schema' = IF e = NoErr THEN shape ELSE NoShape
           /\ last' = Call("create", "", "", e)
    /\ UNCHANGED instances

\* new Record(values)
Construct(input) ==
    /\ schema # NoShape
    /\ LET out == Record(schema, input)
       IN  /\ instances' = IF out.error = NoErr
                           THEN Keep(instances, out.instance) ELSE instances
           /\ last' = Call("construct", "", "", out.error)
    /\ schema' = afterRecord(schema, last'.error)

\* new Sub(values), where the caller has declared class Sub extends Record {}
ConstructSub(input) ==
    /\ schema # NoShape
    /\ LET out == New("Sub", schema, input)
       IN  /\ instances' = IF out.error = NoErr
                           THEN Keep(instances, out.instance) ELSE instances
           /\ last' = Call("construct", "", "", out.error)
    /\ schema' = afterRecord(schema, last'.error)

\* shape[f][k] = v by the caller, after ImmutableRecord(shape): the schema is
\* frozen (Object.freeze is shallow), its rule objects are not, and the
\* RecordSchema holds the caller's objects themselves.
WriteRule(f, k, v) ==
    /\ schema # NoShape
    /\ f \in DOMAIN schema.rules
    /\ schema.rules[f].kind = "object"
    /\ schema' = [schema EXCEPT !.rules[f].def = Put(@, k, v)]
    /\ last' = Call("writeRule", f, v, NoErr)
    /\ UNCHANGED instances

\* delete shape[f][k] by the caller.
DeleteRuleKey(f, k) ==
    /\ schema # NoShape
    /\ f \in DOMAIN schema.rules
    /\ schema.rules[f].kind = "object"
    /\ schema' = [schema EXCEPT !.rules[f].def = Del(@, k)]
    /\ last' = Call("deleteRuleKey", f, "", NoErr)
    /\ UNCHANGED instances

\* shape[f] = rule by the caller: the frozen object keeps its properties and
\* the assignment throws in strict mode.
WriteShape(f) ==
    /\ schema # NoShape
    /\ last' = Call("writeShape", f, "", Err("TypeError", f, ""))
    /\ UNCHANGED <<schema, instances>>

\* instances[i].set(property, newValue)
Set(i, property, newValue) ==
    /\ schema # NoShape
    /\ i \in DOMAIN instances
    /\ LET r == instances[i]
       IN  IF ~hasProperty(schema, property)
           THEN /\ last' = Call("set", property, newValue, Err("UnknownField", property, ""))
                /\ UNCHANGED instances
           ELSE LET out == New(getRecordConstructor(r), schema,
                               Input(update(r.priv, property, newValue)))
                    after == receiverAfterSet(r, property, newValue)
                    held == [instances EXCEPT ![i] = after]
                IN  /\ instances' = IF out.error = NoErr
                                    THEN Keep(held, out.instance) ELSE held
                    /\ last' = Call("set", property, newValue, out.error)
    /\ schema' = afterRecord(schema, last'.error)

\* instances[i].remove(property)
Remove(i, property) ==
    /\ schema # NoShape
    /\ i \in DOMAIN instances
    /\ LET r == instances[i]
       IN  IF ~hasProperty(schema, property)
           THEN /\ last' = Call("remove", property, "", Err("UnknownField", property, ""))
                /\ UNCHANGED instances
           ELSE LET out == New(getRecordConstructor(r), schema,
                               Input(unsetField(r.priv, property)))
                    after == receiverAfterRemove(r, property)
                    held == [instances EXCEPT ![i] = after]
                IN  /\ instances' = IF out.error = NoErr
                                    THEN Keep(held, out.instance) ELSE held
                    /\ last' = Call("remove", property, "", out.error)
    /\ schema' = afterRecord(schema, last'.error)

\* instances[i][property] = value
Assign(i, property, value) ==
    /\ schema # NoShape
    /\ i \in DOMAIN instances
    /\ LET out == assign(instances[i], property, value)
       IN  /\ instances' = [instances EXCEPT ![i] = out.instance]
           /\ last' = Call("assign", property, value, out.error)
    /\ UNCHANGED schema

Next ==
    \/ \E shape \in Shapes : ImmutableRecord(shape)
    \/ \E input \in InputsFor(schema) : Construct(input)
    \/ \E i \in 1..MaxInstances, f \in NamesFor(schema), v \in Atoms : Set(i, f, v)
    \/ \E i \in 1..MaxInstances, f \in NamesFor(schema) : Remove(i, f)

Spec == Init /\ [][Next]_vars

\* The same program with a client that also assigns to the declared fields
\* of the instances it holds.
NextAssign ==
    \/ Next
    \/ \E i \in 1..MaxInstances, f \in DOMAIN schema.rules, v \in AssignValues :
          Assign(i, f, v)

SpecAssign == Init /\ [][NextAssign]_vars

\* The same program with a record type of one field and any rule.
NextSchema ==
    \/ \E shape \in SchemaShapes : ImmutableRecord(shape)
    \/ \E input \in InputsFor(schema) : Construct(input)
    \/ \E i \in 1..MaxInstances, f \in NamesFor(schema), v \in Atoms : Set(i, f, v)
    \/ \E i \in 1..MaxInstances, f \in NamesFor(schema) : Remove(i, f)

SpecSchema == Init /\ [][NextSchema]_vars

\* The same program with a caller that passes references to objects.
NextRef ==
    \/ \E shape \in {ShapeRef, ShapePath} : ImmutableRecord(shape)
    \/ \E input \in RefInputs(schema) : Construct(input)
    \/ \E i \in 1..MaxInstances, f \in DOMAIN schema.rules, v \in RefValues : Set(i, f, v)
    \/ \E i \in 1..MaxInstances, f \in DOMAIN schema.rules : Remove(i, f)

SpecRef == Init /\ [][NextRef]_vars

\* The same program with a caller that has subclassed the record type.
NextSub ==
    \/ ImmutableRecord(ShapeDefault)
    \/ \E input \in InputsFor(schema) : Construct(input)
    \/ \E input \in InputsFor(schema) : ConstructSub(input)
    \/ \E i \in 1..MaxInstances, f \in NamesFor(schema), v \in Atoms : Set(i, f, v)
    \/ \E i \in 1..MaxInstances, f \in NamesFor(schema) : Remove(i, f)

SpecSub == Init /\ [][NextSub]_vars

\* The same program with a caller that keeps writing to the shape it has
\* passed to ImmutableRecord.
NextWrite ==
    \/ ImmutableRecord(ShapeTypedDefault)
    \/ \E input \in InputsFor(schema) : Construct(input)
    \/ \E i \in 1..MaxInstances, f \in NamesFor(schema), v \in Atoms : Set(i, f, v)
    \/ \E i \in 1..MaxInstances, f \in NamesFor(schema) : Remove(i, f)
    \/ \E f \in DOMAIN schema.rules, w \in RuleWrites : WriteRule(f, w[1], w[2])
    \/ \E f \in DOMAIN schema.rules, w \in RuleWrites : DeleteRuleKey(f, w[1])
    \/ \E f \in NamesFor(schema) : WriteShape(f)

SpecWrite == Init /\ [][NextWrite]_vars

\* schema.removeInvalidInputKeys(obj)
RemoveInvalidInputKeys(obj) ==
    /\ schema # NoShape
    /\ last' = MethodCall("removeInvalidInputKeys", obj, argumentAfterPick(schema, obj),
                          removeInvalidInputKeys(schema, obj), FALSE)
    /\ UNCHANGED <<schema, instances>>

\* schema.applyDefaults(obj)
ApplyDefaults(obj) ==
    /\ schema # NoShape
    /\ last' = MethodCall("applyDefaults", obj, argumentAfterDefaults(schema, obj),
                          applyDefaults(schema, obj), TRUE)
    /\ schema' = afterApplyDefaults(schema)
    /\ UNCHANGED instances

\* schema.getAccessorsForInput(obj)
GetAccessorsForInput(obj) ==
    /\ schema # NoShape
    /\ LET values == getAccessorsForInput(schema, obj)
       IN  last' = MethodCall("getAccessorsForInput", obj, argumentAfterPick(schema, obj),
                              [k \in DOMAIN values |-> RecordAccessor(values[k])], FALSE)
    /\ UNCHANGED <<schema, instances>>

\* A RecordSchema whose methods the caller calls itself.
NextMethods ==
    \/ \E shape \in Shapes : ImmutableRecord(shape)
    \/ \E obj \in InputObjects(schema) : RemoveInvalidInputKeys(obj)
    \/ \E obj \in InputObjects(schema) : ApplyDefaults(obj)
    \/ \E obj \in InputObjects(schema) : GetAccessorsForInput(obj)

SpecMethods == Init /\ [][NextMethods]_vars

\* new FieldValue(definition): throws, or the FieldValue exists; schema
\* holds its stored definition as the rule of x.
NewFieldValue(rule) ==
    /\ schema = NoShape
    /\ last.op = "none"
    /\ LET e == checkValidDefinition(rule)
       IN  /\ schema' = IF e = NoErr
                        THEN Shape(<<"x">>, "x" :> Rule(fieldDefinition(rule)))
                        ELSE NoShape
           /\ last' = Call("FieldValue", "", "", e)
    /\ UNCHANGED instances

\* fieldValue.isValid(value)
IsValid(v) ==
    /\ schema # NoShape
    /\ last' = Returned("isValid", v, isValid(schema.rules["x"].def, v))
    /\ UNCHANGED <<schema, instances>>

\* A FieldValue of any definition, asked about values.
NextFieldValue ==
    \/ \E rule \in {Rule(def) : def \in RuleDefs} \cup {NullRule} : NewFieldValue(rule)
    \/ \E v \in FieldValues : IsValid(v)

SpecFieldValue == Init /\ [][NextFieldValue]_vars

\* -------------------------------------------------------------- properties

Declared == DOMAIN schema.rules

DefOf(f) == schema.rules[f].def

HasDefault(f) == "default" \in DOMAIN DefOf(f)

RequiredNoDefault(f) ==
    /\ "required" \in DOMAIN DefOf(f)
    /\ DefOf(f)["required"] = "true"
    /\ ~HasDefault(f)

\* v satisfies the type constraint of field f, if f has one.
Accepts(f, v) == "type" \in DOMAIN DefOf(f) => isValidForType(DefOf(f)["type"], v)

\* Field f is present on the instance and reads v.
Reads(inst, f, v) == f \in DOMAIN Visible(inst) /\ Visible(inst)[f] = v

Absent(inst, f) == f \notin DOMAIN Visible(inst)

\* The declared fields other than f have the same presence and value on both.
SameExcept(r, new, f) ==
    \A g \in Declared \ {f} :
        /\ g \in DOMAIN Visible(r) <=> g \in DOMAIN Visible(new)
        /\ g \in DOMAIN Visible(r) => Visible(r)[g] = Visible(new)[g]

\* The instance the step has just created.
Newest == instances'[Len(instances')]

\* The step is a call that returned a new instance.
Created == last'.op \in {"construct", "set", "remove"} /\ last'.error = NoErr

\* By how much the step moves the instances the client already holds.
Shift == IF Created /\ Len(instances) = MaxInstances THEN 1 ELSE 0

Validates(inst) ==
    \A f \in Declared :
        /\ RequiredNoDefault(f) => f \in DOMAIN inst.priv /\ f \in DOMAIN inst.acc
        /\ \A o \in {inst.priv, inst.acc} :
              (f \in DOMAIN o /\ "type" \in DOMAIN DefOf(f))
                  => isValidForType(DefOf(f)["type"], o[f])

ReceiverUnchanged ==
    \A i \in DOMAIN instances :
        i - Shift >= 1 => Visible(instances'[i - Shift]) = Visible(instances[i])

ReadBack(input, inst) ==
    \A f \in Declared :
        IF f \in DOMAIN input.obj THEN Reads(inst, f, input.obj[f])
        ELSE IF HasDefault(f) THEN Reads(inst, f, DefOf(f)["default"])
        ELSE Absent(inst, f)

\* C3: after the constructor accepts an input, every declared field reads
\* the value the input supplied for it, or the default when the input did
\* not supply it and the schema declares one, and is absent otherwise.
ConstructorReadBack ==
    [][\A input \in InputsFor(schema) :
          (Construct(input) /\ last'.error = NoErr) => ReadBack(input, Newest)]_vars

\* C4: a direct assignment to a declared field of an instance, present on it
\* or not, fails with ImmutableWriteError and leaves the instance as it was.
DirectAssignmentFails ==
    [][\A i \in DOMAIN instances, f \in Declared, v \in AssignValues :
          Assign(i, f, v) =>
              /\ last'.error.err = "ImmutableWriteError"
              /\ instances' = instances]_vars

\* The own properties of obj that the schema declares.
DeclaredPart(obj) == [k \in DOMAIN obj \cap Declared |-> obj[k]]

\* C5: the properties an instance shows are declared fields, and the
\* undeclared keys of a constructor input neither show on the instance nor
\* make the construction fail.
OnlyDeclaredFieldsVisible ==
    [][\A input \in InputsFor(schema) :
          Construct(input) =>
              /\ \A i \in DOMAIN instances' :
                    DOMAIN Visible(instances'[i]) \subseteq Declared
              /\ input.kind = "object" =>
                    (last'.error = NoErr
                        <=> Record(schema, Input(DeclaredPart(input.obj))).error = NoErr)]_vars

\* C6: hasProperty is true of exactly the declared names, and set and remove
\* of any other name fail with UnknownField, create no instance and leave
\* the receiver as it was.
UndeclaredNamesRejected ==
    [][\A i \in DOMAIN instances, f \in FieldNames, v \in Atoms :
          (Set(i, f, v) \/ Remove(i, f)) =>
              /\ hasProperty(schema, f) <=> f \in Declared
              /\ f \notin Declared =>
                    /\ last'.error = Err("UnknownField", f, "")
                    /\ instances' = instances]_vars

\* C7: set(f, v) of a declared field f with a value v that f accepts returns
\* a new instance where f reads v and every other field has the presence and
\* the value it has on the receiver.
SetChangesExactlyField ==
    [][\A i \in DOMAIN instances, f \in Declared, v \in Atoms :
          (Set(i, f, v) /\ Accepts(f, v)) =>
              /\ last'.error = NoErr
              /\ Reads(Newest, f, v)
              /\ SameExcept(instances[i], Newest, f)]_vars

\* C8: set(f, v) of a declared field f with a value v that fails the type of
\* f fails with the InvalidFieldValue error of a construction with f = v,
\* creates no instance and leaves the receiver as it was.
SetRejectsInvalidValue ==
    [][\A i \in DOMAIN instances, f \in Declared, v \in Atoms :
          (Set(i, f, v) /\ ~Accepts(f, v)) =>
              /\ last'.error = Err("InvalidFieldValue", f, v)
              /\ last'.error = Record(schema, Input(f :> v)).error
              /\ instances' = instances]_vars

\* C9: remove(f) of a declared field f returns a new instance where f reads
\* its default when it has one, fails with MissingField when f is required
\* and has no default, and otherwise returns a new instance without f; the
\* other fields keep their presence and value.
RemoveRestoresDefaultOrDrops ==
    [][\A i \in DOMAIN instances, f \in Declared :
          Remove(i, f) =>
              IF HasDefault(f)
              THEN /\ last'.error = NoErr
                   /\ Reads(Newest, f, DefOf(f)["default"])
                   /\ SameExcept(instances[i], Newest, f)
              ELSE IF RequiredNoDefault(f)
              THEN /\ last'.error = Err("MissingField", f, "")
                   /\ instances' = instances
              ELSE /\ last'.error = NoErr
                   /\ Absent(Newest, f)
                   /\ SameExcept(instances[i], Newest, f)]_vars

\* C10: on the instance a remove(f) has just returned, set(f, v) with a
\* value v that f accepts returns an instance where f reads v.
SetAfterRemoveReadsValue ==
    [][\A f \in Declared, v \in Atoms :
          (/\ last.op = "remove"
           /\ last.error = NoErr
           /\ last.field = f
           /\ Set(Len(instances), f, v)
           /\ Accepts(f, v)) =>
              /\ last'.error = NoErr
              /\ Reads(Newest, f, v)]_vars

\* What reading field f of the instance gives: undefined when f is absent.
Read(inst, f) == IF f \in DOMAIN Visible(inst) THEN Visible(inst)[f] ELSE "undefined"

\* C11: for every instance and every declared field f, present on it or not,
\* set(f, the value read at f) succeeds and returns an instance with the
\* same keys and the same values.
SetCurrentValueIdempotent ==
    [][\A i \in DOMAIN instances, f \in Declared :
          Set(i, f, Read(instances[i], f)) =>
              /\ last'.error = NoErr
              /\ Visible(Newest) = Visible(instances[i])]_vars

\* The declared fields other than f are as the schema wants them in the
\* input: there when required without a default, of their type when there.
OthersFine(input, f) ==
    \A g \in Declared \ {f} :
        /\ RequiredNoDefault(g) => g \in DOMAIN input.obj
        /\ g \in DOMAIN input.obj => Accepts(g, input.obj[g])

\* C12: for a field f that is required and has no default, a construction
\* from an input without f fails, with MissingField naming f when nothing
\* else is wrong, and a construction from an input with f present and of its
\* type succeeds.
RequiredFieldEnforced ==
    [][\A input \in InputsFor(schema), f \in Declared :
          (Construct(input) /\ RequiredNoDefault(f) /\ input.kind # "other") =>
              IF f \notin DOMAIN input.obj
              THEN /\ last'.error # NoErr
                   /\ OthersFine(input, f) => last'.error = Err("MissingField", f, "")
              ELSE (Accepts(f, input.obj[f]) /\ OthersFine(input, f))
                       => last'.error = NoErr]_vars

RequiredWithDefault(f) ==
    /\ "required" \in DOMAIN DefOf(f)
    /\ DefOf(f)["required"] = "true"
    /\ HasDefault(f)

\* C13: a required field f with a default is always satisfied: MissingField
\* is never raised for f, a construction from an input without f succeeds
\* with f reading the default, and remove(f) succeeds and restores the
\* default.
RequiredWithDefaultSatisfied ==
    [][/\ \A input \in InputsFor(schema), f \in Declared :
              (Construct(input) /\ RequiredWithDefault(f) /\ input.kind # "other") =>
                  /\ last'.error # Err("MissingField", f, "")
                  /\ (f \notin DOMAIN input.obj /\ OthersFine(input, f)) =>
                        /\ last'.error = NoErr
                        /\ Reads(Newest, f, DefOf(f)["default"])
       /\ \A i \in DOMAIN instances, f \in Declared :
              (Remove(i, f) /\ RequiredWithDefault(f)) =>
                  /\ last'.error = NoErr
                  /\ Reads(Newest, f, DefOf(f)["default"])]_vars

\* C14: when the constructor input supplies undefined for a declared field,
\* the instance has the field with the value undefined; a field reads its
\* default only when the input does not have the field.
ExplicitUndefinedKept ==
    [][\A input \in InputsFor(schema), f \in Declared :
          (Construct(input) /\ last'.error = NoErr /\ f \in DOMAIN input.obj) =>
              /\ input.obj[f] = "undefined" => Reads(Newest, f, "undefined")
              /\ (HasDefault(f) /\ input.obj[f] # DefOf(f)["default"])
                    => ~Reads(Newest, f, DefOf(f)["default"])]_vars

\* v satisfies the type t: t is the kind of v, or the predicate t holds of v.
Satisfies(t, v) == IF t = "gt5" THEN v = "n7" ELSE TypeOf(v) = t

\* The rule has a type and a default, and the default does not satisfy it.
Mismatch(def) ==
    /\ {"type", "default"} \subseteq DOMAIN def
    /\ ~Satisfies(def["type"], def["default"])

\* The rule is made of type, default and required, each well-formed.
PlainRule(def) ==
    /\ DOMAIN def \subseteq {"type", "default", "required"}
    /\ "type" \in DOMAIN def => def["type"] \in TYPE_STRINGS \cup {"gt5"}
    /\ "required" \in DOMAIN def => def["required"] \in {"true", "false"}

\* The shape is a plain object of one field whose rule is a plain object.
OneRule(shape) ==
    /\ shape.kind = "object"
    /\ Len(shape.keys) = 1
    /\ shape.rules[shape.keys[1]].kind = "object"

\* C15: creating a record type fails with InvalidSchema when a rule has a
\* type and a default that does not satisfy it, and succeeds when the
\* default satisfies the type of an otherwise well-formed rule; so a default
\* that an instance reads satisfies the type of its field.
DefaultValidatedAtCreation ==
    [][/\ \A shape \in SchemaShapes :
              (ImmutableRecord(shape) /\ OneRule(shape)) =>
                  LET def == shape.rules[shape.keys[1]].def
                  IN  /\ Mismatch(def) =>
                            /\ last'.error.err = "InvalidSchema"
                            /\ schema' = NoShape
                      /\ ({"type", "default"} \subseteq DOMAIN def
                             /\ ~Mismatch(def) /\ PlainRule(def)) =>
                            /\ last'.error = NoErr
                            /\ schema' = shape
       /\ \A i \in DOMAIN instances', f \in Declared :
              ({"type", "default"} \subseteq DOMAIN DefOf(f)
                  /\ Reads(instances'[i], f, DefOf(f)["default"]))
                  => Satisfies(DefOf(f)["type"], DefOf(f)["default"])]_vars

\* A record type whose field x has a type and a default, and an instance
\* that remove("x") returned reads the default at x.
DefaultValidatedAtCreationWitness ==
    /\ "x" \in Declared
    /\ {"type", "default"} \subseteq DOMAIN DefOf("x")
    /\ last.op = "remove"
    /\ last.field = "x"
    /\ last.error = NoErr
    /\ Reads(instances[Len(instances)], "x", DefOf("x")["default"])

\* The rule has only the keys type, required, enumerable and default, with
\* a boolean at required and at enumerable and a type tag (in whatever case,
\* which is C17's matter) or a function of one parameter at type.
RecognizedRule(def) ==
    /\ DOMAIN def \subseteq {"type", "required", "enumerable", "default"}
    /\ "required" \in DOMAIN def => def["required"] \in {"true", "false"}
    /\ "enumerable" \in DOMAIN def => def["enumerable"] \in {"true", "false"}
    /\ "type" \in DOMAIN def => def["type"] \in TYPE_STRINGS \cup {"String", "gt5"}

\* C16: creating a record type accepts a rule exactly when its keys are
\* among type, required, enumerable and default and each is well-formed (the
\* default satisfying the type, C15): a rule with a boolean enumerable is
\* accepted, a rule with any other key is rejected.
RuleKeysRecognized ==
    [][\A shape \in SchemaShapes :
          (ImmutableRecord(shape) /\ OneRule(shape)) =>
              LET def == shape.rules[shape.keys[1]].def
              IN  ~Mismatch(def) => (last'.error = NoErr <=> RecognizedRule(def))]_vars

\* C17: creating a record type fails for every type that is neither one of
\* the seven type tags, written exactly, nor a function of one parameter;
\* and under an accepted type tag t a present value validates exactly when
\* its typeof is t.
TypeRecognized ==
    [][/\ \A shape \in SchemaShapes :
              (ImmutableRecord(shape) /\ OneRule(shape)) =>
                  LET def == shape.rules[shape.keys[1]].def
                  IN  ("type" \in DOMAIN def /\ def["type"] \notin TYPE_STRINGS \cup {"gt5"}) =>
                          /\ last'.error.err = "InvalidSchema"
                          /\ schema' = NoShape
       /\ \A input \in InputsFor(schema), f \in Declared :
              (/\ Construct(input)
               /\ Declared = {f}
               /\ f \in DOMAIN input.obj
               /\ "type" \in DOMAIN DefOf(f)
               /\ TypeIsString(DefOf(f)["type"])) =>
                  (last'.error = NoErr <=> TypeOf(input.obj[f]) = DefOf(f)["type"])]_vars

\* C18: creating a record type from a shape that is no plain object (null
\* included) or has no key fails with InvalidSchema, and there is no record
\* type after it.
ShapeMustHaveKeys ==
    [][\A shape \in SchemaShapes :
          (ImmutableRecord(shape) /\ (shape.kind # "object" \/ Len(shape.keys) = 0)) =>
              /\ last'.error.err = "InvalidSchema"
              /\ schema' = NoShape
              /\ instances' = <<>>]_vars

\* The creation from {} has failed and there is no record type.
ShapeMustHaveKeysWitness ==
    /\ last.op = "create"
    /\ last.error = Err("InvalidSchema", "", "0 keys")
    /\ schema = NoShape

\* What C19 has isValid return for a stored definition and a value.
ValidByRule(definition, v) ==
    IF v = "undefined" THEN definition["required"] # "true"
    ELSE \/ definition["type"] = "undefinedValue"
         \/ definition["type"] \in TYPE_STRINGS /\ TypeOf(v) = definition["type"]
         \/ definition["type"] = "gt5" /\ v = "n7"

\* C19: FieldValue.isValid(value) is true of undefined exactly when the
\* field is not required, whatever its type, and true of another value
\* exactly when the field has no type, or the type tag is the typeof of the
\* value, or the predicate holds of the value.
IsValidByRule ==
    last.op = "isValid" => last.result = ValidByRule(schema.rules["x"].def, last.value)

\* isValid(undefined) has returned false for a required field with a type.
IsValidByRuleWitness ==
    /\ last.op = "isValid"
    /\ last.value = "undefined"
    /\ schema.rules["x"].def["required"] = "true"
    /\ schema.rules["x"].def["type"] = "undefined"
    /\ last.result = FALSE

\* The value is an object or a function, held by reference.
IsRef(v) == TypeOf(v) \in {"object", "function"}

\* C20: a field reads the very reference given for it to the constructor or
\* to set, and after a set or a remove of another field the fields that were
\* not touched read the references they read on the receiver.
ReferencesKept ==
    [][/\ \A input \in RefInputs(schema), f \in Declared :
              (/\ Construct(input)
               /\ last'.error = NoErr
               /\ f \in DOMAIN input.obj
               /\ IsRef(input.obj[f])) => Reads(Newest, f, input.obj[f])
       /\ \A i \in DOMAIN instances, f \in Declared, v \in RefValues :
              (Set(i, f, v) /\ last'.error = NoErr) =>
                  /\ IsRef(v) => Reads(Newest, f, v)
                  /\ \A g \in DOMAIN Visible(instances[i]) \ {f} :
                        Reads(Newest, g, Visible(instances[i])[g])
       /\ \A i \in DOMAIN instances, f \in Declared :
              (Remove(i, f) /\ last'.error = NoErr) =>
                  \A g \in DOMAIN Visible(instances[i]) \ {f} :
                      Reads(Newest, g, Visible(instances[i])[g])]_vars

\* C21: set and remove return an instance of the receiver's own concrete
\* type: a Record from a Record, a Sub from a Sub.
SameConcreteType ==
    [][\A i \in DOMAIN instances, f \in NamesFor(schema) :
          /\ \A v \in Atoms :
                (Set(i, f, v) /\ last'.error = NoErr)
                    => Newest.ctor = instances[i].ctor
          /\ (Remove(i, f) /\ last'.error = NoErr)
                => Newest.ctor = instances[i].ctor]_vars

\* A set or a remove on an instance of the subclass has returned an instance.
SameConcreteTypeWitness ==
    /\ last.op \in {"set", "remove"}
    /\ last.error = NoErr
    /\ instances # <<>>
    /\ instances[Len(instances)].ctor = "Sub"

\* The contract's order of construction with the schema's own operations:
\* filter to the declared keys, apply the defaults, validate the result.
Pipeline(sch, input) ==
    IF input.kind = "other" THEN Outcome(Err("InvalidInput", "", ""), NoInstance)
    ELSE LET clean == applyDefaults(sch, removeInvalidInputKeys(sch, input.obj))
             e == validateInput(sch, Input(clean))
         IN  IF e # NoErr THEN Outcome(e, NoInstance)
             ELSE Outcome(NoErr, Instance(clean, getAccessorsForInput(sch, clean)))

\* C22: new Record(input) raises the error, or gives the fields and values,
\* that filtering, then defaulting, then validating the result gives.
ConstructorIsPipeline ==
    [][\A input \in InputsFor(schema) :
          Construct(input) =>
              /\ last'.error = Pipeline(schema, input).error
              /\ last'.error = NoErr =>
                    Visible(Newest) = Visible(Pipeline(schema, input).instance)]_vars

\* C23: for the declared field that is a key of the input, validateInput
\* raises the invalid-value error for the field exactly when
\* FieldValue.isValid is false of the value under the field's rule.
PresentFieldValidatedByIsValid ==
    [][\A input \in InputsFor(schema), f \in Declared :
          (/\ Construct(input)
           /\ Declared = {f}
           /\ schema.rules[f].kind = "object"
           /\ input.kind = "object"
           /\ f \in DOMAIN input.obj)
              => (last'.error = Err("InvalidFieldValue", f, input.obj[f])
                    <=> ~isValid(fieldDefinition(schema.rules[f]), input.obj[f]))]_vars

\* The rule a field is declared with; null declares a field of any value.
RuleOf(f) == IF schema.rules[f].kind = "object" THEN schema.rules[f].def ELSE NoDef

\* The field is in violation for the input: required without a default and
\* missing, or present with a value that its type does not take.
InViolation(f, obj) ==
    IF ~HasIn(obj, f)
    THEN /\ "required" \in DOMAIN RuleOf(f)
         /\ RuleOf(f)["required"] = "true"
         /\ "default" \notin DOMAIN RuleOf(f)
    ELSE /\ "type" \in DOMAIN RuleOf(f)
         /\ ~isValidForType(RuleOf(f)["type"], Get(obj, f))

\* The places in the declaration of the fields in violation.
Violations(obj) == {i \in 1..Len(schema.keys) : InViolation(schema.keys[i], obj)}

FirstOf(places) == CHOOSE i \in places : \A j \in places : i <= j

\* C24: an input that is neither nil nor a plain object raises the
\* invalid-input error; another input raises the error of the first field
\* in violation, in declaration order, and none when no field is in
\* violation; a failed validation leaves no instance behind.
ValidationFailsOnFirstViolation ==
    [][\A input \in InputsFor(schema) :
          Construct(input) =>
              /\ input.kind = "other" => last'.error = Err("InvalidInput", "", "")
              /\ (input.kind # "other" /\ Violations(input.obj) = {})
                    => last'.error = NoErr
              /\ (input.kind # "other" /\ Violations(input.obj) # {})
                    => /\ last'.error.err \in {"MissingField", "InvalidFieldValue"}
                       /\ last'.error.field = schema.keys[FirstOf(Violations(input.obj))]
              /\ last'.error # NoErr => instances' = instances]_vars

\* The outcomes of new Record(input) under two states of the schema are the
\* same error, or the same fields and values.
SameOutcome(before, after, input) ==
    /\ Record(before, input).error = Record(after, input).error
    /\ Visible(Record(before, input).instance) = Visible(Record(after, input).instance)

\* C25: a change the caller makes to the shape or to one of its rule
\* objects after the record type exists changes the outcome of no
\* construction.
ShapeChangesIgnored ==
    [][\A f \in NamesFor(schema), w \in RuleWrites :
          (WriteRule(f, w[1], w[2]) \/ DeleteRuleKey(f, w[1]) \/ WriteShape(f))
              => \A input \in InputsFor(schema) : SameOutcome(schema, schema', input)]_vars

\* C26: removeInvalidInputKeys and applyDefaults return a mapping that is
\* not their argument, and the argument has the keys and values after the
\* call that it had before.
MethodsLeaveArgument ==
    last.op \in {"removeInvalidInputKeys", "applyDefaults"}
        => ~last.same /\ last.after = last.input

\* C27: getAccessorsForInput returns a descriptor for exactly the declared
\* fields that are keys of the input, each enumerable and not configurable,
\* with a getter that returns the input's value and a setter that fails.
AccessorsForPresentDeclared ==
    last.op = "getAccessorsForInput" =>
        /\ DOMAIN last.result = Declared \cap DOMAIN last.input
        /\ \A f \in DOMAIN last.result :
              /\ f \in DOMAIN last.input => last.result[f].get = last.input[f]
              /\ last.result[f].set = "throws"
              /\ last.result[f].enumerable
              /\ ~last.result[f].configurable

\* C28: at every time the accessors of every instance read the keys and
\* values of the backing state that its set and remove start from.
AccessorsShowBackingState ==
    \A i \in DOMAIN instances : instances[i].acc = instances[i].priv

\* new Record(m) for the plain mapping m of what the instance shows.
Rebuilt(inst) == Record(schema, Input(Visible(inst)))

\* C29: for every instance reached by the constructor, set and remove, the
\* construction from its visible fields and values succeeds and gives an
\* instance with the same fields and values.
RebuildsToSame ==
    \A i \in DOMAIN instances :
        /\ Rebuilt(instances[i]).error = NoErr
        /\ Visible(Rebuilt(instances[i]).instance) = Visible(instances[i])

\* An instance made by set shows a field, and the construction from what it
\* shows has given the same fields and values.
RebuildsToSameWitness ==
    /\ last.op = "set"
    /\ last.error = NoErr
    /\ Len(instances) = 2
    /\ Visible(instances[2]) # Visible(instances[1])
    /\ Visible(instances[2]) # NoObj
    /\ Rebuilt(instances[2]).error = NoErr
    /\ Visible(Rebuilt(instances[2]).instance) = Visible(instances[2])

\* Field f is optional and has no default.
OptionalNoDefault(f) ==
    /\ ~("required" \in DOMAIN DefOf(f) /\ DefOf(f)["required"] = "true")
    /\ ~HasDefault(f)

\* C30: remove of an optional field without a default that the instance
\* does not have succeeds and returns an instance with the fields and
\* values of the receiver.
RemoveAbsentKeepsFields ==
    [][\A i \in DOMAIN instances, f \in Declared :
          (/\ Remove(i, f)
           /\ OptionalNoDefault(f)
           /\ Absent(instances[i], f))
              => /\ last'.error = NoErr
                 /\ Visible(Newest) = Visible(instances[i])]_vars

====
